---- MODULE Spec2Model ----
(***************************************************************************)
(* PrevailPay: certified-payroll API (src/main.py, src/schemas.py).        *)
(*                                                                         *)
(* State: the four document collections the handlers write ("project",     *)
(* "timesheetentry", "submission", "signature"), the request threads that  *)
(* run generate_submission (FastAPI runs sync handlers on a thread pool,   *)
(* so the three store calls of one request interleave with other           *)
(* requests), the bulk upload in flight, and the last responses.           *)
(*                                                                         *)
(* Numbers.  Every Python float of the model is kept as an exact integer   *)
(* count of 1/Unit (1/80).  The inputs are drawn from a grid on which      *)
(* every product and sum the handler forms is a multiple of 1/80 that      *)
(* IEEE doubles hold exactly (5 * 0.6 = 3.0, 40 * 0.6 = 24.0, multiples of *)
(* 1/8), so the exact arithmetic below is the handler's arithmetic.        *)
(***************************************************************************)
EXTENDS Integers, Sequences, FiniteSets, TLC

\* ------------------------------------------------------------------ bounds
MaxProjects == 1
MaxTimesheets == 2
MaxSubmissions == 2
MaxSignatures == 1
MaxTemplates == 2
MaxRows == 2

\* ------------------------------------------------------- number encoding
\* A float x is held as the integer x * Unit.
Unit == 8 * 10

\* Python None, for Optional[float] fields; every float of the model is >= 0.
None == 0 - 1

F(dollars) == dollars * Unit

\* a * b on floats; exact on the input grid (see the header).
Mul(a, b) == (a * b) \div Unit

\* dict.get(key, default)
Get(d, key, default) == IF key \in DOMAIN d THEN d[key] ELSE default

\* ------------------------------------------------------------ rounding
\* The integer nearest to num / den (den > 0, num >= 0), a tie going to the
\* even neighbour: what round(v, 2) does on a double that is exactly halfway.
RoundHalfEven(num, den) ==
    LET q == num \div den
        r == num % den
    IN  IF 2 * r < den THEN q
        ELSE IF 2 * r > den THEN q + 1
        ELSE IF q % 2 = 0 THEN q ELSE q + 1

\* The integer nearest to num / den, a tie going away from zero.
RoundHalfAway(num, den) ==
    LET q == num \div den
        r == num % den
    IN  IF 2 * r < den THEN q ELSE q + 1

\* A rounding whose ties go away from zero.
Round2_HalfAway(v) == RoundHalfAway(100 * v, Unit)

\* round(v, 2): the result in hundredths.
Round2(v) == RoundHalfEven(100 * v, Unit)

\* --------------------------------------------------------------- inputs
Electrician == "Electrician"
Plumber == "Plumber"
Laborer == "Laborer"

Week1 == "2024-01-05"
Week2 == "2024-01-12"

\* WageRate payloads as a client sends them (a field left out is absent).
WageRateInputs ==
    { [craft |-> Electrician, base_rate |-> F(40), fringe_rate |-> F(1)],
      [craft |-> Electrician, base_rate |-> F(5), apprentice_factor |-> F(1) \div 2],
      [craft |-> Electrician, base_rate |-> F(5), fringe_rate |-> F(1),
       apprentice_factor |-> F(1)],
      [craft |-> Plumber, base_rate |-> F(5), fringe_rate |-> F(1)],
      [craft |-> Plumber, base_rate |-> F(40), fringe_rate |-> F(1),
       apprentice_factor |-> None] }

\* Timesheet rows as a client sends them, without project and week:
\* hours 0, 0.125 and 8.
RowInputs ==
    { [craft |-> Electrician, hours |-> F(1) \div 8],
      [craft |-> Electrician, hours |-> F(8), apprentice |-> TRUE],
      [craft |-> Plumber, hours |-> F(1) \div 8, apprentice |-> TRUE],
      [craft |-> Laborer, hours |-> 0],
      [craft |-> Laborer, hours |-> F(8), apprentice |-> TRUE] }

SeqsUpTo(S, n) == UNION { [1..k -> S] : k \in 0..n }

Workers == {1, 2}

Timestamps == {"2024-01-13T09:00:00"}

\* -------------------------------------------------------------- schemas
\* Field(0.6, ...) of WageRate.apprentice_factor
SchemaApprenticeFactor == (6 * Unit) \div 10

\* WageRate(...): defaults filled in; Optional[float] keeps an explicit None.
WageRate(p) ==
    [craft |-> p.craft,
     base_rate |-> p.base_rate,
     fringe_rate |-> Get(p, "fringe_rate", 0),
     apprentice_factor |-> Get(p, "apprentice_factor", SchemaApprenticeFactor)]

\* Project(...): only the field the handlers read.
Project(p) ==
    [wage_templates |->
        [i \in 1..Len(Get(p, "wage_templates", <<>>)) |-> WageRate(p.wage_templates[i])]]

TimesheetEntry(p) ==
    [project_id |-> p.project_id,
     craft |-> p.craft,
     hours |-> p.hours,
     apprentice |-> Get(p, "apprentice", FALSE),
     week_ending |-> p.week_ending]

\* Submission(...): the signer fields and signed_at default to None.
Submission(project_id, week_ending, totals, warnings, status) ==
    [project_id |-> project_id,
     week_ending |-> week_ending,
     totals |-> totals,
     warnings |-> warnings,
     signer_name |-> None,
     signer_title |-> None,
     signed_at |-> None,
     status |-> status]

\* ---------------------------------------------------------------- store
\* The document store (database.py is not part of the sources: modelled from
\* the collaborator contract, create(collection, doc) -> id and
\* query(collection, filter) -> [doc]).  A collection is the sequence of its
\* documents in insertion order; the id of a new document is fresh.
NewId(coll) == Len(coll) + 1

create_document(coll, doc) == Append(coll, ("_id" :> NewId(coll)) @@ doc)

Eq(v) == [op |-> "eq", v |-> v]
Exists(b) == [op |-> "$exists", v |-> b]

Matches(doc, filt) ==
    \A k \in DOMAIN filt :
        IF filt[k].op = "$exists"
        THEN (k \in DOMAIN doc) = filt[k].v
        ELSE k \in DOMAIN doc /\ doc[k] = filt[k].v

get_documents(coll, filt) == SelectSeq(coll, LAMBDA d : Matches(d, filt))

\* str(ObjectId)
Str(id) == ToString(id)

\* ------------------------------------------------- generate_submission
\* next((p for p in projects if str(p.get("_id")) == project_id), None):
\* the 1-based place of the first match, 0 for None.
FirstMatch(projects, project_id) ==
    LET hits == { i \in 1..Len(projects) : Str(Get(projects[i], "_id", None)) = project_id }
    IN  IF hits = {} THEN 0 ELSE CHOOSE i \in hits : \A j \in hits : i <= j

\* A lookup that falls back to the first project when none has the id.
FindProject_FirstAsDefault(projects, project_id) ==
    IF FirstMatch(projects, project_id) = 0 /\ Len(projects) > 0
    THEN 1 ELSE FirstMatch(projects, project_id)

FindProject(projects, project_id) == FirstMatch(projects, project_id)

\* A filter that leaves the week out.
TimesheetFilter_ProjectOnly(r) == [project_id |-> Eq(r.project_id)]

\* The filter of the timesheet query.
TimesheetFilter(r) ==
    [project_id |-> Eq(r.project_id), week_ending |-> Eq(r.week_ending)]

\* r.get("apprentice_factor", 0.6)
DefaultApprenticeFactor == (6 * Unit) \div 10

\* float(x) raises TypeError on None.
FloatFails(x) == x = None

\* Whether building the rate lookup raises.
RateMapFails(rates) ==
    \E i \in 1..Len(rates) :
        \/ FloatFails(Get(rates[i], "base_rate", 0))
        \/ FloatFails(Get(rates[i], "fringe_rate", 0))
        \/ FloatFails(Get(rates[i], "apprentice_factor", DefaultApprenticeFactor))

RateEntry(r) ==
    [base |-> Get(r, "base_rate", 0),
     fringe |-> Get(r, "fringe_rate", 0),
     apprentice_factor |-> Get(r, "apprentice_factor", DefaultApprenticeFactor)]

\* A lookup that keeps the first entry of a craft.
RateMapPut_KeepFirst(m, craft, entry) == m @@ (craft :> entry)

\* rate_map[craft] = entry
RateMapPut(m, craft, entry) == (craft :> entry) @@ m

RECURSIVE RateMapFrom(_, _, _)
RateMapFrom(rates, i, m) ==
    IF i > Len(rates) THEN m
    ELSE RateMapFrom(rates, i + 1, RateMapPut(m, rates[i].craft, RateEntry(rates[i])))

\* The rate lookup: a function from the crafts that have a rate.
BuildRateMap(rates) == RateMapFrom(rates, 1, <<>>)

WarningText(craft) == "Missing wage rate for craft '" \o craft \o "'"

ZeroTotals == [hours |-> 0, base_pay |-> 0, fringe |-> 0, gross |-> 0]

\* A warning per missing craft instead of per row.
RowMissing_Dedup(acc, craft) ==
    IF \E k \in 1..Len(acc.warnings) : acc.warnings[k] = WarningText(craft)
    THEN acc
    ELSE [acc EXCEPT !.warnings = Append(@, WarningText(craft))]

\* warnings.append(...); continue
RowMissing(acc, craft) ==
    [acc EXCEPT !.warnings = Append(@, WarningText(craft))]

\* A row pay whose fringe is scaled by the apprentice factor too.
RowPay_FringeScaled(rm, hours, apprentice) ==
    LET factor == IF apprentice THEN rm.apprentice_factor ELSE F(1)
        base_pay == Mul(Mul(rm.base, factor), hours)
        fringe_pay == Mul(Mul(rm.fringe, factor), hours)
    IN  [hours |-> hours, base_pay |-> base_pay, fringe |-> fringe_pay,
         gross |-> base_pay + fringe_pay]

\* The pay of one matched row.
RowPay(rm, hours, apprentice) ==
    LET base_rate == Mul(rm.base, IF apprentice THEN rm.apprentice_factor ELSE F(1))
        fringe_rate == rm.fringe
        base_pay == Mul(base_rate, hours)
        fringe_pay == Mul(fringe_rate, hours)
    IN  [hours |-> hours, base_pay |-> base_pay, fringe |-> fringe_pay,
         gross |-> base_pay + fringe_pay]

\* One pass of the loop over rows.
RowStep(acc, rate_map, t) ==
    LET craft == Get(t, "craft", None)
        hours == Get(t, "hours", 0)
        apprentice == Get(t, "apprentice", FALSE)
    IN  IF craft \notin DOMAIN rate_map
        THEN RowMissing(acc, craft)
        ELSE LET pay == RowPay(rate_map[craft], hours, apprentice)
             IN  [acc EXCEPT !.totals = [k \in DOMAIN @ |-> @[k] + pay[k]]]

RECURSIVE RowLoop(_, _, _, _)
RowLoop(acc, rate_map, rows, i) ==
    IF i > Len(rows) THEN acc
    ELSE RowLoop(RowStep(acc, rate_map, rows[i]), rate_map, rows, i + 1)

\* totals (unrounded) and warnings after the loop.
Accumulate(rates, rows) ==
    RowLoop([totals |-> ZeroTotals, warnings |-> <<>>], BuildRateMap(rates), rows, 1)

\* {k: round(v, 2) for k, v in totals.items()}, in hundredths.
RoundTotals(totals) == [k \in DOMAIN totals |-> Round2(totals[k])]

\* An insert that replaces the stored submission of the same project and
\* week, when there is one.
SaveSubmission_Upsert(coll, sub) ==
    LET same == { i \in 1..Len(coll) : coll[i].project_id = sub.project_id
                                        /\ coll[i].week_ending = sub.week_ending }
    IN  IF same = {} THEN create_document(coll, sub)
        ELSE [i \in 1..Len(coll) |->
                 IF i \in same THEN ("_id" :> coll[i]._id) @@ sub ELSE coll[i]]

\* create_document("submission", sub)
SaveSubmission(coll, sub) == create_document(coll, sub)

\* ---------------------------------------------------------------- state
VARIABLES
    project,         \* collection "project"
    timesheetentry,  \* collection "timesheetentry"
    submission,      \* collection "submission"
    signature,       \* collection "signature"
    uploadQueue,     \* upload_timesheets: the entries not yet inserted
    pc,              \* per request thread: where generate_submission stands
    req,             \* per request thread: the GenerateRequest
    rates,           \* per request thread: the local rates
    rows,            \* per request thread: the local rows
    response,        \* the last response of generate_submission
    signResponse,    \* the last response of sign_submission
    answered,        \* history: the request that response answers
    queried,         \* history: per thread, "timesheetentry" as the row query saw it
    basis,           \* history: per generate call that returned 200, the rates it
                     \* read, the store its row query saw, its unrounded totals
    generated        \* history: the number of generate calls that returned 200

vars == <<project, timesheetentry, submission, signature, uploadQueue, pc, req,
          rates, rows, response, signResponse, answered, queried, basis, generated>>

NoRequest == [project_id |-> "", week_ending |-> ""]
NoResponse == [status |-> 0]
NoSignResponse == [status |-> ""]

Idle ==
    /\ uploadQueue = <<>>
    /\ pc = [w \in Workers |-> "idle"]
    /\ req = [w \in Workers |-> NoRequest]
    /\ rates = [w \in Workers |-> <<>>]
    /\ rows = [w \in Workers |-> <<>>]
    /\ response = NoResponse
    /\ signResponse = NoSignResponse
    /\ answered = NoRequest
    /\ queried = [w \in Workers |-> <<>>]
    /\ basis = <<>>
    /\ generated = 0

Init ==
    /\ project = <<>>
    /\ timesheetentry = <<>>
    /\ submission = <<>>
    /\ signature = <<>>
    /\ Idle

\* ------------------------------------------------------------- handlers
\* POST /projects
create_project(payload) ==
    /\ Len(project) < MaxProjects
    /\ project' = create_document(project, Project(payload))
    /\ UNCHANGED <<timesheetentry, submission, signature, uploadQueue, pc, req, rates,
                   rows, response, signResponse, answered, queried, basis, generated>>

\* POST /timesheets/bulk: the payload is validated, then the loop inserts the
\* entries one store call at a time.
upload_timesheets(payload) ==
    /\ uploadQueue = <<>>
    /\ Len(timesheetentry) + Len(payload) <= MaxTimesheets
    /\ uploadQueue' = [i \in 1..Len(payload) |-> TimesheetEntry(payload[i])]
    /\ UNCHANGED <<project, timesheetentry, submission, signature, pc, req, rates, rows,
                   response, signResponse, answered, queried, basis, generated>>

upload_timesheets_insert ==
    /\ uploadQueue # <<>>
    /\ timesheetentry' = create_document(timesheetentry, Head(uploadQueue))
    /\ uploadQueue' = Tail(uploadQueue)
    /\ UNCHANGED <<project, submission, signature, pc, req, rates, rows, response,
                   signResponse, answered, queried, basis, generated>>

\* The thread pool hands a request to a free thread; the threads are
\* interchangeable, and the model takes the first free one.
FreeThread(p) ==
    CHOOSE w \in Workers : p[w] = "idle" /\ \A v \in Workers : p[v] = "idle" => w <= v

\* POST /submissions/generate, up to the project lookup: 404 or go on.
generate_load_project(w, r) ==
    /\ pc[w] = "idle"
    /\ w = FreeThread(pc)
    /\ Len(submission) + Cardinality({v \in Workers : pc[v] # "idle"}) < MaxSubmissions
    /\ LET projects == get_documents(project, [_id |-> Exists(TRUE)])
           i == FindProject(projects, r.project_id)
       IN  IF i = 0
           THEN /\ response' = [status |-> 404, detail |-> "Project not found"]
                /\ answered' = r
                /\ UNCHANGED <<pc, req, rates>>
           ELSE /\ pc' = [pc EXCEPT ![w] = "load_rows"]
                /\ req' = [req EXCEPT ![w] = r]
                /\ rates' = [rates EXCEPT ![w] = Get(projects[i], "wage_templates", <<>>)]
                /\ UNCHANGED <<response, answered>>
    /\ UNCHANGED <<project, timesheetentry, submission, signature, uploadQueue, rows,
                   signResponse, queried, basis, generated>>

\* The timesheet query.
generate_load_rows(w) ==
    /\ pc[w] = "load_rows"
    /\ rows' = [rows EXCEPT ![w] = get_documents(timesheetentry, TimesheetFilter(req[w]))]
    /\ queried' = [queried EXCEPT ![w] = timesheetentry]
    /\ pc' = [pc EXCEPT ![w] = "compute"]
    /\ UNCHANGED <<project, timesheetentry, submission, signature, uploadQueue, req,
                   rates, response, signResponse, answered, basis, generated>>

\* The rate lookup, the loop over rows, the rounding and the insert; an
\* exception of float() ends the request with a 500 and stores nothing.
generate_compute(w) ==
    /\ pc[w] = "compute"
    /\ IF RateMapFails(rates[w])
       THEN /\ response' = [status |-> 500, detail |-> "Internal Server Error"]
            /\ UNCHANGED <<submission, basis, generated>>
       ELSE LET acc == Accumulate(rates[w], rows[w])
                sub == Submission(req[w].project_id, req[w].week_ending,
                                  RoundTotals(acc.totals), acc.warnings, "generated")
            IN  /\ submission' = SaveSubmission(submission, sub)
                /\ response' = [status |-> 200,
                                body |-> ("id" :> Str(NewId(submission))) @@ sub]
                /\ basis' = Append(basis, [rates |-> rates[w], store |-> queried[w],
                                           totals |-> acc.totals])
                /\ generated' = generated + 1
    /\ answered' = req[w]
    /\ pc' = [pc EXCEPT ![w] = "idle"]
    /\ req' = [req EXCEPT ![w] = NoRequest]
    /\ rates' = [rates EXCEPT ![w] = <<>>]
    /\ rows' = [rows EXCEPT ![w] = <<>>]
    /\ queried' = [queried EXCEPT ![w] = <<>>]
    /\ UNCHANGED <<project, timesheetentry, signature, uploadQueue, signResponse>>

\* A sign handler that also writes the signer into the submission.
sign_submission_Marking(r, now) ==
    /\ Len(signature) < MaxSignatures
    /\ LET sig == [submission_id |-> r.submission_id,
                   signer_name |-> r.signer_name,
                   signer_title |-> r.signer_title,
                   signed_at |-> now,
                   type |-> "statement_of_compliance"]
       IN  /\ signature' = create_document(signature, sig)
           /\ signResponse' = [signature_id |-> Str(NewId(signature)), status |-> "signed"]
    /\ submission' = [i \in 1..Len(submission) |->
                         IF Str(submission[i]._id) = r.submission_id
                         THEN [submission[i] EXCEPT !.status = "signed"]
                         ELSE submission[i]]
    /\ UNCHANGED <<project, timesheetentry, uploadQueue, pc, req, rates, rows,
                   response, answered, queried, basis, generated>>

\* POST /submissions/sign
sign_submission(r, now) ==
    /\ Len(signature) < MaxSignatures
    /\ LET sig == [submission_id |-> r.submission_id,
                   signer_name |-> r.signer_name,
                   signer_title |-> r.signer_title,
                   signed_at |-> now,
                   type |-> "statement_of_compliance"]
       IN  /\ signature' = create_document(signature, sig)
           /\ signResponse' = [signature_id |-> Str(NewId(signature)), status |-> "signed"]
    /\ UNCHANGED <<project, timesheetentry, submission, uploadQueue, pc, req, rates, rows,
                   response, answered, queried, basis, generated>>

\* ------------------------------------------------- the service as a whole
\* The payloads of the requests, taken from the grid of WageRateInputs.
ProjectPayloads ==
    { [wage_templates |->
          <<[craft |-> Electrician, base_rate |-> F(40), fringe_rate |-> F(1)]>>],
      [wage_templates |->
          <<[craft |-> Electrician, base_rate |-> F(5), fringe_rate |-> F(1),
             apprentice_factor |-> F(1)],
            [craft |-> Plumber, base_rate |-> F(40), fringe_rate |-> F(1),
             apprentice_factor |-> None]>>] }

ProjectIds == {"1", "2"}

EntryA == [project_id |-> "1", week_ending |-> Week1, craft |-> Electrician,
           hours |-> F(1) \div 8]
EntryB == [project_id |-> "1", week_ending |-> Week2, craft |-> Electrician,
           hours |-> F(8), apprentice |-> TRUE]
EntryC == [project_id |-> "2", week_ending |-> Week1, craft |-> Laborer,
           hours |-> F(8)]

\* The bulk payloads: one entry, or two in one call (a generate call may run
\* between the two inserts).
BulkPayloads == { <<EntryB>>, <<EntryC, EntryA>> }

GenerateRequests == [project_id : ProjectIds, week_ending : {Week1}]

SignRequests ==
    [submission_id : {"1"}, signer_name : {"Ann"}, signer_title : {"Owner"}]

Next ==
    \/ \E p \in ProjectPayloads : create_project(p)
    \/ \E p \in BulkPayloads : upload_timesheets(p)
    \/ upload_timesheets_insert
    \/ \E w \in Workers, r \in GenerateRequests : generate_load_project(w, r)
    \/ \E w \in Workers : generate_load_rows(w)
    \/ \E w \in Workers : generate_compute(w)
    \/ \E r \in SignRequests, now \in Timestamps : sign_submission(r, now)

Spec == Init /\ [][Next]_vars

\* --------------------------------- generation over a store already filled
\* One project with any templates and any rows of its week 1 in the store
\* (a state create_project and upload_timesheets reach); requests for the
\* project and for a project that does not exist, one at a time.
TemplateLists == SeqsUpTo(WageRateInputs, MaxTemplates)

RowLists == SeqsUpTo(RowInputs, MaxRows)

RowPayload(r) == ("project_id" :> "1") @@ ("week_ending" :> Week1) @@ r

RECURSIVE Inserted(_, _, _)
Inserted(coll, docs, i) ==
    IF i > Len(docs) THEN coll
    ELSE Inserted(create_document(coll, docs[i]), docs, i + 1)

InitFilled ==
    /\ \E t \in TemplateLists :
          project = create_document(<<>>, Project([wage_templates |-> t]))
    /\ \E l \in RowLists :
          timesheetentry =
              Inserted(<<>>, [i \in 1..Len(l) |-> TimesheetEntry(RowPayload(l[i]))], 1)
    /\ submission = <<>>
    /\ signature = <<>>
    /\ Idle

NextFilled ==
    \/ \E r \in GenerateRequests : generate_load_project(1, r)
    \/ generate_load_rows(1)
    \/ generate_compute(1)

SpecFilled == InitFilled /\ [][NextFilled]_vars

\* ================================================================ claims
\* What the claims compare the handlers with, written from the claims.
SameKey(t, s) == t.project_id = s.project_id /\ t.week_ending = s.week_ending

\* The rows of a store that belong to a submission's project and week.
MatchingRows(store, s) == SelectSeq(store, LAMBDA t : SameKey(t, s))

ProjectExists(id) == \E i \in 1..Len(project) : Str(project[i]._id) = id

TotalKeys == {"hours", "base_pay", "fringe", "gross"}

\* ------------------------------------------------------------------ C1
\* C1: a stored Submission's totals and warnings are those of exactly the
\* timesheet rows whose project_id and week_ending equal the request's, in
\* the store as the timesheet query saw it ...
C1_ExactRows ==
    \A i \in 1..Len(submission) :
        i <= Len(basis) /\
        LET acc == Accumulate(basis[i].rates, MatchingRows(basis[i].store, submission[i]))
        IN  /\ submission[i].totals = RoundTotals(acc.totals)
            /\ submission[i].warnings = acc.warnings

\* ... and no later step, an upload included, changes a stored Submission.
C1_Frozen ==
    \A i \in 1..Len(submission) :
        i <= Len(submission') /\ submission'[i] = submission[i]

\* C1: every stored Submission is computed from exactly the rows of its
\* project and week that the store held when the timesheet query ran, and
\* once stored it is never changed, whatever is uploaded afterwards.
C1_Snapshot == [](C1_ExactRows) /\ [][C1_Frozen]_vars

\* C1 witness: a stored Submission whose row query saw a row of another
\* project or week, and whose totals are no longer those of the rows now in
\* the store: matching rows were inserted after it.
C1_Witness ==
    \E i \in 1..Len(submission) :
        /\ i <= Len(basis)
        /\ \E j \in 1..Len(basis[i].store) : ~SameKey(basis[i].store[j], submission[i])
        /\ Len(MatchingRows(timesheetentry, submission[i]))
              > Len(MatchingRows(basis[i].store, submission[i]))
        /\ submission[i].totals #
              RoundTotals(Accumulate(basis[i].rates,
                                     MatchingRows(timesheetentry, submission[i])).totals)

\* ------------------------------------------------------------------ C3
\* One step of C3.
C3_NotFoundStep ==
    /\ (response'.status = 404 /\ (response' # response \/ answered' # answered))
          => /\ ~ProjectExists(answered'.project_id)
             /\ response'.detail = "Project not found"
             /\ UNCHANGED <<project, timesheetentry, submission, signature>>
             /\ UNCHANGED <<pc, rows, queried>>
    /\ \A w \in Workers :
          (pc[w] = "idle" /\ pc'[w] # "idle") => ProjectExists(req'[w].project_id)
    /\ \A i \in 1..Len(submission') : ProjectExists(submission'[i].project_id)

\* C3: a generate call for a project_id that no stored project has is
\* answered 404 "Project not found", changes no collection and starts no
\* timesheet query; a request thread goes on to the timesheet query only for
\* a stored project, so every stored Submission names one.
C3_NotFound == [][C3_NotFoundStep]_vars

\* C3 witness: a 404 for an id no project has, in a store that holds a
\* project and timesheet rows of that id, and no submission.
C3_Witness ==
    /\ response.status = 404
    /\ ~ProjectExists(answered.project_id)
    /\ Len(project) > 0
    /\ \E j \in 1..Len(timesheetentry) : timesheetentry[j].project_id = answered.project_id
    /\ submission = <<>>

\* ------------------------------------------------------------------ C6
\* C6: the store holds one Submission per generate call that returned 200,
\* each under an id of its own, whether or not one of the same project and
\* week was stored before: none is overwritten, none rejected.
C6_OnePerCall ==
    /\ Len(submission) = generated
    /\ \A i, j \in 1..Len(submission) : i # j => submission[i]._id # submission[j]._id
    /\ response.status = 200 =>
          \E i \in 1..Len(submission) : Str(submission[i]._id) = response.body.id

\* C6 witness: two stored Submissions of one project and week, computed
\* from the same rows.
C6_Witness ==
    /\ Len(submission) = 2
    /\ SameKey(submission[1], submission[2])
    /\ submission[1]._id # submission[2]._id
    /\ Len(basis) = 2 /\ basis[1].store = basis[2].store

\* ------------------------------------------------------------------ C7
\* C7: every stored Submission has status "generated" and no signer and no
\* signed_at, in every state ...
C7_Unsigned ==
    \A i \in 1..Len(submission) :
        /\ submission[i].status = "generated"
        /\ submission[i].signer_name = None
        /\ submission[i].signer_title = None
        /\ submission[i].signed_at = None

\* ... and a sign call appends one Signature record of the five fields,
\* type "statement_of_compliance", answers "signed", and changes neither the
\* submissions nor the signatures already stored.
C7_SignStep ==
    /\ \A i \in 1..Len(signature) : i <= Len(signature') /\ signature'[i] = signature[i]
    /\ signature' # signature =>
          /\ Len(signature') = Len(signature) + 1
          /\ DOMAIN signature'[Len(signature')] =
                {"_id", "submission_id", "signer_name", "signer_title", "signed_at", "type"}
          /\ signature'[Len(signature')].type = "statement_of_compliance"
          /\ signResponse'.status = "signed"
          /\ submission' = submission

LastTemplate(templates, craft) ==
    LET hits == { k \in 1..Len(templates) : templates[k].craft = craft }
    IN  IF hits = {} THEN 0 ELSE CHOOSE k \in hits : \A j \in hits : j <= k

HasRate(templates, t) == LastTemplate(templates, t.craft) # 0

\* Sum of f over the rows 1..n.
RECURSIVE SumOver(_, _, _)
SumOver(f(_), rws, n) == IF n = 0 THEN 0 ELSE SumOver(f, rws, n - 1) + f(rws[n])

\* The rows a stored submission was computed from.
RowsOf(i) == MatchingRows(basis[i].store, submission[i])

\* ------------------------------------------------------------------ C2
\* The warnings the claim expects: one per row without a rate, in row order.
RECURSIVE ExpectedWarnings(_, _, _)
ExpectedWarnings(templates, rws, n) ==
    IF n = 0 THEN <<>>
    ELSE IF HasRate(templates, rws[n])
         THEN ExpectedWarnings(templates, rws, n - 1)
         ELSE Append(ExpectedWarnings(templates, rws, n - 1),
                     "Missing wage rate for craft '" \o rws[n].craft \o "'")

C4_OnlyNotFoundFails ==
    /\ response.status \in {0, 200, 404}
    /\ response.status = 404 => ~ProjectExists(answered.project_id)

\* ------------------------------------------------------------------ C5
\* C5: the unrounded totals of a stored Submission are the sums, over the
\* fetched rows whose craft has a rate, of hours, of
\* base_rate * (apprentice_factor if apprentice else 1) * hours, of
\* fringe_rate * hours (never scaled), and of the two pays together, the
\* rate and the factor being those of the craft's template.  The products
\* are compared unscaled: a float x is the integer x * Unit.
C5_Sums ==
    \A i \in 1..Len(submission) :
        LET tpl == basis[i].rates
            paid == SelectSeq(RowsOf(i), LAMBDA t : HasRate(tpl, t))
            rate(t) == tpl[LastTemplate(tpl, t.craft)]
            hoursOf(t) == t.hours
            baseOf(t) == rate(t).base_rate
                            * (IF t.apprentice THEN rate(t).apprentice_factor ELSE Unit)
                            * t.hours
            fringeOf(t) == rate(t).fringe_rate * t.hours
            tot == basis[i].totals
        IN  /\ tot.hours = SumOver(hoursOf, paid, Len(paid))
            /\ tot.base_pay * Unit * Unit = SumOver(baseOf, paid, Len(paid))
            /\ tot.fringe * Unit = SumOver(fringeOf, paid, Len(paid))
            /\ tot.gross = tot.base_pay + tot.fringe

\* C5 witness: a stored Submission with an apprentice row paid at the
\* default factor 0.6 of its craft's template, with base pay and fringe.
C5_Witness ==
    \E i \in 1..Len(submission) :
        /\ basis[i].totals.base_pay > 0
        /\ basis[i].totals.fringe > 0
        /\ \E j \in 1..Len(RowsOf(i)) :
              LET t == RowsOf(i)[j]
                  k == LastTemplate(basis[i].rates, t.craft)
              IN  /\ k # 0
                  /\ t.apprentice
                  /\ t.hours > 0
                  /\ basis[i].rates[k].apprentice_factor = SchemaApprenticeFactor

\* ------------------------------------------------------------------ C8
\* Every template replaced by the last template of its craft.
LastEntries(tpl) == [k \in 1..Len(tpl) |-> tpl[LastTemplate(tpl, tpl[k].craft)]]

\* C8: the lookup built from the templates a stored Submission read holds,
\* for each craft, the base rate, fringe rate and apprentice factor of the
\* last template of that craft, and the totals are those the last templates
\* alone give.
C8_LastWins ==
    \A i \in 1..Len(submission) :
        LET tpl == basis[i].rates
            m == BuildRateMap(tpl)
        IN  /\ DOMAIN m = { tpl[k].craft : k \in 1..Len(tpl) }
            /\ \A k \in 1..Len(tpl) :
                  LET last == tpl[LastTemplate(tpl, tpl[k].craft)]
                  IN  /\ m[tpl[k].craft].base = last.base_rate
                      /\ m[tpl[k].craft].fringe = last.fringe_rate
                      /\ m[tpl[k].craft].apprentice_factor = last.apprentice_factor
            /\ basis[i].totals = Accumulate(LastEntries(tpl), RowsOf(i)).totals

\* C8 witness: a stored Submission whose project has two templates of one
\* craft with different base rates, and a row of that craft with hours.
C8_Witness ==
    \E i \in 1..Len(submission) :
        \E a, b \in 1..Len(basis[i].rates) :
            /\ a < b
            /\ basis[i].rates[a].craft = basis[i].rates[b].craft
            /\ basis[i].rates[a].base_rate # basis[i].rates[b].base_rate
            /\ \E j \in 1..Len(RowsOf(i)) :
                  /\ RowsOf(i)[j].craft = basis[i].rates[a].craft
                  /\ RowsOf(i)[j].hours > 0

\* ------------------------------------------------------------------ C9
\* |100 * v - r * Unit|: how far r hundredths are from the float v.
Off(v, r) == IF 100 * v >= r * Unit THEN 100 * v - r * Unit ELSE r * Unit - 100 * v

\* C9 as claimed: each stored total is the hundredth nearest to its final
\* accumulator, an accumulator halfway between two hundredths going to the
\* one of larger magnitude.
C9_HalfAwayFromZero ==
    \A i \in 1..Len(submission) : \A k \in TotalKeys :
        LET v == basis[i].totals[k]
            r == submission[i].totals[k]
        IN  /\ 2 * Off(v, r) <= Unit
            /\ 2 * Off(v, r) = Unit => r * Unit > 100 * v

\* C9 as amended: each stored total is the hundredth nearest to its final
\* accumulator (the sum over all rows, rounded once), an accumulator halfway
\* between two hundredths going to the even one.
C9_HalfEven ==
    \A i \in 1..Len(submission) : \A k \in TotalKeys :
        LET v == basis[i].totals[k]
            r == submission[i].totals[k]
        IN  /\ 2 * Off(v, r) <= Unit
            /\ 2 * Off(v, r) = Unit => r % 2 = 0

\* C9 witness: a stored total whose accumulator, summed over two rows, lies
\* halfway between two hundredths and was rounded down to the even one.
C9_Witness ==
    \E i \in 1..Len(submission) : \E k \in TotalKeys :
        /\ Len(RowsOf(i)) = 2
        /\ 2 * Off(basis[i].totals[k], submission[i].totals[k]) = Unit
        /\ submission[i].totals[k] * Unit < 100 * basis[i].totals[k]

\* ----------------------------------------------------------------- C10
\* C10: in every stored Submission, gross = base_pay + fringe.
C10_GrossIsBasePlusFringe ==
    \A i \in 1..Len(submission) :
        submission[i].totals.gross
            = submission[i].totals.base_pay + submission[i].totals.fringe

====
